---- MODULE Spec2Model ----
(***************************************************************************)
(* A model of genfiles.py: the random-data primitive, the flat and the     *)
(* structured generator, the two statistics printers and the command-line  *)
(* entry point main.                                                       *)
(*                                                                         *)
(* The file system is a set of directories and a map from file paths to    *)
(* file sizes.  Random draws (random.randint, random.choice, os.urandom)   *)
(* and the outcome of every file-system call are nondeterministic choices. *)
(***************************************************************************)
EXTENDS Integers, Sequences, FiniteSets, TLC

(***************************************************************************)
(* Bounds of the model.                                                    *)
(***************************************************************************)
\* a direct call for empty files (size_kb = 0, K = 0) creates at most MaxTotal
\* files (num_files, or N * M)
MaxTotal == 3
\* largest K of a direct call of create_structured_files for one file
MaxK == 1
\* largest size_kb of a direct call of create_files_simple for one file
MaxSizeKB == 2
\* a min_size_bytes above every K * 1024 the model draws
LargeMin == 5000
\* largest integer given on the command line
MaxArg == 1
\* largest size_bytes handed to the text branch of generate_random_data on
\* its own
MaxLen == 2
\* largest size_bytes handed to its binary branch on its own
MaxBinLen == 1

(***************************************************************************)
(* Program constants.                                                      *)
(***************************************************************************)
\* bytes per kilobyte: size_kb * 1024, K * 1024
KB == 1024
\* the default of the parameter min_size_bytes
DefaultMinSize == 100
\* the exit status of argparse's parser.error
UsageExit == 2
\* the width of the {i:03d} index in file and directory names
PadWidth == 3

(***************************************************************************)
(* generate_random_data.                                                   *)
(***************************************************************************)
\* code points of string.ascii_letters: a-z then A-Z
ascii_letters == [k \in 1..52 |-> IF k <= 26 THEN 96 + k ELSE 64 + (k - 26)]
\* code points of string.digits: 0-9
digits == [k \in 1..10 |-> 47 + k]
\* mutant: the alphabet also holds a punctuation mark
characters_punct == ascii_letters \o digits \o <<32, 10, 9, 33>>

\* string.ascii_letters + string.digits + ' \n\t'
characters == ascii_letters \o digits \o <<32, 10, 9>>

\* str.encode('utf-8') of one code point
utf8(c) ==
    IF c < 128 THEN <<c>>
    ELSE IF c < 2048 THEN <<192 + (c \div 64), 128 + (c % 64)>>
    ELSE <<224 + (c \div 4096), 128 + ((c \div 64) % 64), 128 + (c % 64)>>

RECURSIVE encode(_)
encode(text) ==
    IF text = <<>> THEN <<>> ELSE utf8(Head(text)) \o encode(Tail(text))

\* the text branch: one random.choice(characters) per index of range(size_bytes);
\* rnd[k] is the index the k-th random.choice draws (0-based)
random_text(size_bytes, rnd) ==
    [k \in 1..size_bytes |-> characters[rnd[k] + 1]]

\* rnd holds the random draws: bytes for os.urandom, indices for random.choice.
\* The result is the bytes returned, or the exception raised: os.urandom
\* raises ValueError for a negative size, range(size_bytes) is empty for one
generate_random_data(size_bytes, is_binary, rnd) ==
    IF is_binary
    THEN IF size_bytes < 0
         THEN [raises |-> "ValueError"]
         ELSE [raises |-> "none", data |-> [k \in 1..size_bytes |-> rnd[k]]]
    ELSE [raises |-> "none", data |-> encode(random_text(size_bytes, rnd))]

\* the number of bytes each symbol of characters encodes to
char_widths == {Len(utf8(characters[k])) : k \in DOMAIN characters}

\* the values len(generate_random_data(size_bytes, is_binary)) can take:
\* os.urandom returns size_bytes bytes and raises ValueError (no value) for a
\* negative size; the text branch returns one symbol per index of
\* range(size_bytes), each encoded to the width of a symbol of characters
data_lens(size_bytes, is_binary) ==
    IF is_binary
    THEN {n \in {size_bytes} : n >= 0}
    ELSE {(IF size_bytes > 0 THEN size_bytes ELSE 0) * w : w \in char_widths}

(***************************************************************************)
(* Names: f"{i:03d}" and the paths built from it.                          *)
(***************************************************************************)
RECURSIVE decimal(_)
decimal(n) == IF n < 10 THEN <<n>> ELSE decimal(n \div 10) \o <<n % 10>>

RECURSIVE zfill(_, _)
zfill(ds, width) == IF Len(ds) >= width THEN ds ELSE zfill(<<0>> \o ds, width)

\* f"{i:03d}"
pad03(i) == zfill(decimal(i), PadWidth)

\* f"fixed_file_{i:03d}.bin" in root_dir
simple_path(i) == <<"root", "fixed_file_", pad03(i), ".bin">>

\* f"subdir_{i:03d}" in root_dir
subdir_path(i) == <<"root", "subdir_", pad03(i)>>

\* f"file_{j:03d}{extension}" in the subdirectory
structured_path(i, j, is_binary) ==
    <<subdir_path(i), "file_", pad03(j), IF is_binary THEN ".bin" ELSE ".txt">>

(***************************************************************************)
(* The environment: outcomes of file-system calls and random draws.        *)
(***************************************************************************)
\* with open(file_path, "wb") as f: f.write(data)
\*   "ok"          the file holds data
\*   "open_fails"  open raises IOError: the file system is unchanged
\*   "write_fails" write or close raises IOError: the file exists and holds
\*                 a prefix of data
WriteOutcomes == {"ok", "open_fails", "write_fails"}

\* mutant: the handler catches a failed write but not a failed open
catches_write_only(outcome) == outcome = "write_fails"

\* except IOError: both failures of the with-block are IOError
catches_IOError(outcome) == outcome \in {"open_fails", "write_fails"}

\* the sizes a file can be left with when its write fails: any prefix of the
\* data reached the disk, all of it when only close fails
truncated_sizes(size) == 0..size

\* mutant: the upper end is off by one
randint_past(lo, hi) == lo..(hi + 1)

\* random.randint(lo, hi)
randint(lo, hi) == lo..hi

\* the lengths the with-block can leave the file with: all of the data when
\* it succeeds, a prefix when the write fails (a failed open leaves the file
\* system as it was)
lefts(size, outcome) ==
    IF outcome = "write_fails" THEN truncated_sizes(size) ELSE {size}

\* mutant: an existing file is kept and the data goes to a new name
write_file_beside(fmap, path, size, outcome, left) ==
    LET target == IF path \in DOMAIN fmap THEN Append(path, "(1)") ELSE path
    IN CASE outcome = "ok" ->
               [p \in DOMAIN fmap \cup {target} |->
                   IF p = target THEN size ELSE fmap[p]]
         [] outcome = "open_fails" -> fmap
         [] outcome = "write_fails" ->
               [p \in DOMAIN fmap \cup {target} |->
                   IF p = target THEN left ELSE fmap[p]]

\* the file map after the with-block, for each outcome
write_file(fmap, path, size, outcome, left) ==
    CASE outcome = "ok" ->
            [p \in DOMAIN fmap \cup {path} |-> IF p = path THEN size ELSE fmap[p]]
      [] outcome = "open_fails" -> fmap
      [] outcome = "write_fails" ->
            [p \in DOMAIN fmap \cup {path} |-> IF p = path THEN left ELSE fmap[p]]

NoFiles == [p \in {} |-> 0]

(***************************************************************************)
(* State.                                                                  *)
(***************************************************************************)
VARIABLES
    pc,         \* position of the program
    exc,        \* the call whose exception left the generator: "makedirs"
                \* (OSError), "write" (IOError), "ValueError", or "none"
    caller,     \* "main" or "direct": who called the generator
    argv,       \* the command line given to main
    exit_code,  \* -1 while running, then the exit status of main
    console,    \* the kinds of messages printed so far
    frame,      \* parameters and locals of the running generator
    stats,      \* the stats dictionary of the running generator
    dirs,       \* directories on disk
    files,      \* files on disk: path -> size in bytes
    attempted,  \* file indices whose write was attempted in this run
    written,    \* file indices whose write succeeded in this run
    reported,   \* file indices whose write error was printed in this run
    report,     \* what the statistics printer computed
    run,        \* number of the generator run against the root
    first_names, \* the file names on disk when the first run returned
    gen         \* the call of generate_random_data on its own

vars == <<pc, exc, caller, argv, exit_code, console, frame, stats, dirs, files,
          attempted, written, reported, report, run, first_names, gen>>

NoFrame == [fn |-> "none"]
NoStats == [total_files |-> 0, total_size_bytes |-> 0]
NoReport == [kind |-> "none"]
NoArgv == [d |-> FALSE]
NoGen == [size_bytes |-> 0, is_binary |-> FALSE, rnd |-> <<>>, data |-> <<>>,
          called |-> FALSE]

\* the state of the program before anything ran
Idle ==
    /\ exc = "none"
    /\ exit_code = -1
    /\ console = {}
    /\ stats = NoStats
    /\ attempted = {}
    /\ written = {}
    /\ reported = {}
    /\ report = NoReport
    /\ run = 1
    /\ first_names = {}

\* the program before anything ran, and no root directory on disk
Fresh ==
    /\ Idle
    /\ dirs = {}
    /\ files = NoFiles

(***************************************************************************)
(* create_files_simple.                                                    *)
(***************************************************************************)
simple_frame(num_files, size_kb) ==
    [fn |-> "create_files_simple", num_files |-> num_files, size_kb |-> size_kb,
     file_size_bytes |-> 0, i |-> 0]

\* mutant: the size is assigned, not added
simple_update_assign(st, file_size_bytes) ==
    [st EXCEPT !.total_files = @ + 1,
               !.total_size_bytes = file_size_bytes]

\* the stats update of a successful write
simple_update(st, file_size_bytes) ==
    [st EXCEPT !.total_files = @ + 1,
               !.total_size_bytes = @ + file_size_bytes]

\* file_size_bytes = size_kb * 1024; os.makedirs(root_dir); stats = {...}
CFS_Begin ==
    /\ pc = "cfs_begin"
    /\ \E made \in BOOLEAN :
         IF made
         THEN /\ dirs' = dirs \cup {<<"root">>}
              /\ frame' = [frame EXCEPT !.file_size_bytes = frame.size_kb * KB,
                                        !.i = 1]
              /\ stats' = NoStats
              /\ pc' = "cfs_loop"
              /\ UNCHANGED exc
         ELSE /\ pc' = "raised"
              /\ exc' = "makedirs"
              /\ frame' = [frame EXCEPT !.file_size_bytes = frame.size_kb * KB]
              /\ UNCHANGED <<dirs, stats>>
    /\ console' = console \cup {"creating"}
    /\ UNCHANGED <<caller, argv, exit_code, files, attempted, written, reported,
                   report, run, first_names, gen>>

\* one iteration of for i in range(1, num_files + 1)
CFS_File ==
    /\ pc = "cfs_loop"
    /\ frame.i <= frame.num_files
    /\ LET lens == data_lens(frame.file_size_bytes, TRUE)
           path == simple_path(frame.i)
       IN IF lens = {}
          THEN /\ pc' = "raised"
               /\ exc' = "ValueError"
               /\ UNCHANGED <<frame, stats, files, attempted, written, reported,
                              console>>
          ELSE \E size \in lens :
               \E outcome \in WriteOutcomes :
               \E left \in lefts(size, outcome) :
                 /\ files' = write_file(files, path, size, outcome, left)
                 /\ attempted' = attempted \cup {<<frame.i>>}
                 /\ IF outcome = "ok"
                    THEN /\ stats' = simple_update(stats, frame.file_size_bytes)
                         /\ written' = written \cup
                                {[idx |-> <<frame.i>>, path |-> path]}
                         /\ console' = console \cup {"created_file"}
                         /\ frame' = [frame EXCEPT !.i = @ + 1]
                         /\ UNCHANGED <<reported, pc, exc>>
                    ELSE IF catches_IOError(outcome)
                    THEN /\ reported' = reported \cup {<<frame.i>>}
                         /\ console' = console \cup {"error_writing"}
                         /\ frame' = [frame EXCEPT !.i = @ + 1]
                         /\ UNCHANGED <<stats, written, pc, exc>>
                    ELSE /\ pc' = "raised"
                         /\ exc' = "write"
                         /\ UNCHANGED <<stats, written, reported, console, frame>>
    /\ UNCHANGED <<caller, argv, exit_code, dirs, report, run, first_names, gen>>

\* return stats
CFS_Return ==
    /\ pc = "cfs_loop"
    /\ frame.i > frame.num_files
    /\ pc' = "returned"
    /\ first_names' = IF run = 1 THEN DOMAIN files ELSE first_names
    /\ UNCHANGED <<exc, caller, argv, exit_code, console, frame, stats, dirs, files,
                   attempted, written, reported, report, run, gen>>

(***************************************************************************)
(* create_structured_files.                                                *)
(***************************************************************************)
structured_frame(N, M, K, file_type, min_size_bytes) ==
    [fn |-> "create_structured_files", N |-> N, M |-> M, K |-> K,
     file_type |-> file_type, min_size_arg |-> min_size_bytes,
     min_size_bytes |-> min_size_bytes, max_size_bytes |-> 0, i |-> 0, j |-> 0, num_files |-> 0]

\* stats = {'total_files': 0, ...}
structured_stats ==
    [total_files |-> 0, binary_files |-> 0, text_files |-> 0,
     total_size_bytes |-> 0, binary_size_bytes |-> 0, text_size_bytes |-> 0]

\* mutant: the minimum is left as given
clamp_min_none(min_size_bytes, max_size_bytes) == min_size_bytes

\* if min_size_bytes > max_size_bytes: min_size_bytes = max_size_bytes
clamp_min(min_size_bytes, max_size_bytes) ==
    IF min_size_bytes > max_size_bytes THEN max_size_bytes ELSE min_size_bytes

\* the values is_binary can take under a file type
is_binary_choices(file_type) ==
    IF file_type = "bin" THEN {TRUE}
    ELSE IF file_type = "txt" THEN {FALSE}
    ELSE BOOLEAN

\* mutant: a text file is not added to text_size_bytes
structured_update_text(st, file_size, is_binary) ==
    IF is_binary
    THEN [st EXCEPT !.total_files = @ + 1,
                    !.total_size_bytes = @ + file_size,
                    !.binary_files = @ + 1,
                    !.binary_size_bytes = @ + file_size]
    ELSE [st EXCEPT !.total_files = @ + 1,
                    !.total_size_bytes = @ + file_size,
                    !.text_files = @ + 1]

\* the stats update of a successful write
structured_update(st, file_size, is_binary) ==
    IF is_binary
    THEN [st EXCEPT !.total_files = @ + 1,
                    !.total_size_bytes = @ + file_size,
                    !.binary_files = @ + 1,
                    !.binary_size_bytes = @ + file_size]
    ELSE [st EXCEPT !.total_files = @ + 1,
                    !.total_size_bytes = @ + file_size,
                    !.text_files = @ + 1,
                    !.text_size_bytes = @ + file_size]

\* max_size_bytes = K * 1024; os.makedirs(root_dir); the clamp; stats = {...}
CSF_Begin ==
    /\ pc = "csf_begin"
    /\ LET max_size_bytes == frame.K * KB IN
       \E made \in BOOLEAN :
         IF made
         THEN /\ dirs' = dirs \cup {<<"root">>}
              /\ frame' = [frame EXCEPT
                             !.max_size_bytes = max_size_bytes,
                             !.min_size_bytes = clamp_min(@, max_size_bytes),
                             !.i = 1]
              /\ console' = console \cup {"creating"} \cup
                     IF frame.min_size_bytes > max_size_bytes
                     THEN {"warning_min_size"} ELSE {}
              /\ stats' = structured_stats
              /\ pc' = "csf_subdir"
              /\ UNCHANGED exc
         ELSE /\ pc' = "raised"
              /\ exc' = "makedirs"
              /\ console' = console \cup {"creating"}
              /\ frame' = [frame EXCEPT !.max_size_bytes = max_size_bytes]
              /\ UNCHANGED <<dirs, stats>>
    /\ UNCHANGED <<caller, argv, exit_code, files, attempted, written, reported,
                   report, run, first_names, gen>>

\* the head of one iteration of for i in range(1, N + 1): the subdirectory and
\* num_files = random.randint(1, M)
CSF_Subdir ==
    /\ pc = "csf_subdir"
    /\ frame.i <= frame.N
    /\ \E made \in BOOLEAN :
         IF made
         THEN /\ dirs' = dirs \cup {subdir_path(frame.i)}
              /\ console' = console \cup {"created_subdirectory"}
              /\ IF randint(1, frame.M) = {}
                 THEN /\ pc' = "raised"
                      /\ exc' = "ValueError"
                      /\ UNCHANGED frame
                 ELSE /\ \E num_files \in randint(1, frame.M) :
                           frame' = [frame EXCEPT !.num_files = num_files, !.j = 1]
                      /\ pc' = "csf_file"
                      /\ UNCHANGED exc
         ELSE /\ pc' = "raised"
              /\ exc' = "makedirs"
              /\ UNCHANGED <<dirs, console, frame>>
    /\ UNCHANGED <<caller, argv, exit_code, stats, files, attempted, written,
                   reported, report, run, first_names, gen>>

\* the frame and the position after iteration j: the next j, or after the
\* last one the next i
next_file(fr) ==
    IF fr.j < fr.num_files
    THEN [frame |-> [fr EXCEPT !.j = @ + 1], pc |-> "csf_file"]
    ELSE [frame |-> [fr EXCEPT !.j = @ + 1, !.i = @ + 1], pc |-> "csf_subdir"]

\* the largest of a set of lengths
longest(lens) == CHOOSE n \in lens : \A m \in lens : m <= n

\* one iteration of for j in range(1, num_files + 1).  What a failed open or
\* a failed write leaves does not depend on the size drawn beyond the length
\* of the data, so the three outcomes are told apart before the size is
\* drawn: a failed write leaves a prefix of the data of some size of the
\* range, which is a prefix of the longest
CSF_File ==
    /\ pc = "csf_file"
    /\ frame.j <= frame.num_files
    /\ \E is_binary \in is_binary_choices(frame.file_type) :
       LET sizes == randint(frame.min_size_bytes, frame.max_size_bytes)
           lens == UNION {data_lens(file_size, is_binary) : file_size \in sizes}
           path == structured_path(frame.i, frame.j, is_binary)
           idx == <<frame.i, frame.j>>
           raise == /\ pc' = "raised"
                    /\ exc' = "ValueError"
                    /\ UNCHANGED <<frame, stats, files, attempted, written,
                                   reported, console>>
           fail(outcome, left) ==
                    /\ files' = write_file(files, path, left, outcome, left)
                    /\ attempted' = attempted \cup {idx}
                    /\ IF catches_IOError(outcome)
                       THEN /\ reported' = reported \cup {idx}
                            /\ console' = console \cup {"error_writing"}
                            /\ frame' = next_file(frame).frame
                            /\ pc' = next_file(frame).pc
                            /\ UNCHANGED <<stats, written, exc>>
                       ELSE /\ pc' = "raised"
                            /\ exc' = "write"
                            /\ UNCHANGED <<stats, written, reported, console,
                                           frame>>
       IN \/ sizes = {} /\ raise
          \/ \E file_size \in sizes :
               data_lens(file_size, is_binary) = {} /\ raise
          \/ \E file_size \in sizes :
             \E size \in data_lens(file_size, is_binary) :
               /\ files' = write_file(files, path, size, "ok", size)
               /\ attempted' = attempted \cup {idx}
               /\ stats' = structured_update(stats, file_size, is_binary)
               /\ written' = written \cup {[idx |-> idx, path |-> path]}
               /\ console' = console \cup {"created_file"}
               /\ frame' = next_file(frame).frame
               /\ pc' = next_file(frame).pc
               /\ UNCHANGED <<reported, exc>>
          \/ lens # {} /\ fail("open_fails", 0)
          \/ lens # {} /\ \E left \in lefts(longest(lens), "write_fails") :
               fail("write_fails", left)
    /\ UNCHANGED <<caller, argv, exit_code, dirs, report, run, first_names, gen>>

\* return stats
CSF_Return ==
    /\ pc = "csf_subdir"
    /\ frame.i > frame.N
    /\ pc' = "returned"
    /\ UNCHANGED <<exc, caller, argv, exit_code, console, frame, stats, dirs, files,
                   attempted, written, reported, report, run, first_names, gen>>

(***************************************************************************)
(* print_structured_statistics and print_simple_statistics.                *)
(*                                                                         *)
(* A quotient n / d is kept exact, as the pair <<n, d>>.  A report records *)
(* which branch printed, the divisor of every division that was evaluated, *)
(* in order, and the averages that were computed: none when the structured *)
(* printer returns after "No files were generated.", avg_total alone in    *)
(* the flat printer.  The structured printer computes avg_total_size but   *)
(* prints only the binary and the text average.                            *)
(***************************************************************************)
Zero == <<0, 1>>

\* mutant: the average is not guarded
avg_kb_unguarded(bytes, count) ==
    [val |-> <<bytes, count * KB>>, divs |-> <<count, KB>>]

\* bytes / count / 1024 if count > 0 else 0
avg_kb(bytes, count) ==
    IF count > 0
    THEN [val |-> <<bytes, count * KB>>, divs |-> <<count, KB>>]
    ELSE [val |-> Zero, divs |-> <<>>]

\* total_size_mb / total_files if total_files > 0 else 0
avg_mb(bytes, count) ==
    IF count > 0
    THEN [val |-> <<bytes, KB * KB * count>>, divs |-> <<count>>]
    ELSE [val |-> Zero, divs |-> <<>>]

\* a division by zero raises ZeroDivisionError in place of the report
raise_on_zero(r) ==
    IF \E k \in DOMAIN r.divisors : r.divisors[k] = 0
    THEN [kind |-> "ZeroDivisionError", divisors |-> r.divisors]
    ELSE r

print_structured_statistics(st) ==
    IF st.total_files = 0
    THEN [kind |-> "no_files", divisors |-> <<>>]
    ELSE LET t == avg_kb(st.total_size_bytes, st.total_files)
             b == avg_kb(st.binary_size_bytes, st.binary_files)
             x == avg_kb(st.text_size_bytes, st.text_files)
         IN raise_on_zero(
              [kind |-> "structured",
               divisors |-> t.divs \o b.divs \o x.divs \o <<KB * KB, KB * KB, KB * KB>>,
               avg_total |-> t.val, avg_binary |-> b.val, avg_text |-> x.val])

print_simple_statistics(st) ==
    LET t == avg_mb(st.total_size_bytes, st.total_files)
    IN raise_on_zero(
         [kind |-> "simple",
          divisors |-> <<KB * KB>> \o t.divs,
          avg_total |-> t.val])

(***************************************************************************)
(* main.                                                                   *)
(***************************************************************************)
\* a command-line value: not given, not an integer, or an integer
Absent == [k |-> "absent", v |-> 0]
Text == [k |-> "text", v |-> 0]
Num(n) == [k |-> "int", v |-> n]

\* parser.parse_args: -d is required and type=int rejects a non-integer
parse_fails(a) ==
    \/ ~a.d
    \/ \E k \in DOMAIN a.fc : a.fc[k].k = "text"
    \/ a.n.k = "text"
    \/ a.m.k = "text"
    \/ a.k.k = "text"

\* parsed_args.file_create is not None
is_simple_mode(a) == a.fc # <<>>

\* N_files <= 0 or M_size_kb <= 0
simple_invalid(a) == a.fc[1].v <= 0 \/ a.fc[2].v <= 0

\* parsed_args.n is None or parsed_args.max_files is None or
\* parsed_args.max_size_kb is None
structured_missing(a) == a.n.k = "absent" \/ a.m.k = "absent" \/ a.k.k = "absent"

\* mutant: -n is compared with < 0
structured_invalid_n(a) == a.n.v < 0 \/ a.m.v <= 0 \/ a.k.v <= 0

\* mutant: -k is compared with < 0
structured_invalid_k(a) == a.n.v <= 0 \/ a.m.v <= 0 \/ a.k.v < 0

\* parsed_args.n <= 0, parsed_args.max_files <= 0, parsed_args.max_size_kb <= 0
structured_invalid(a) == a.n.v <= 0 \/ a.m.v <= 0 \/ a.k.v <= 0

\* the invocations that end in parser.error
usage_error(a) ==
    \/ parse_fails(a)
    \/ /\ ~parse_fails(a)
       /\ IF is_simple_mode(a)
          THEN simple_invalid(a)
          ELSE structured_missing(a) \/ structured_invalid(a)

\* parsed_args.file_type if parsed_args.file_type else 'mix'
file_type_of(a) == IF a.file_type = "none" THEN "mix" ELSE a.file_type

\* parser.error: the usage message, exit status 2
Main_UsageError ==
    /\ pc = "main"
    /\ usage_error(argv)
    /\ console' = console \cup {"usage_error"}
    /\ exit_code' = UsageExit
    /\ pc' = "exited"
    /\ UNCHANGED <<exc, caller, argv, frame, stats, dirs, files, attempted, written,
                   reported, report, run, first_names, gen>>

\* stats = create_files_simple(root_dir, num_files=N_files, size_kb=M_size_kb)
Main_RunSimple ==
    /\ pc = "main"
    /\ ~usage_error(argv)
    /\ is_simple_mode(argv)
    /\ frame' = simple_frame(argv.fc[1].v, argv.fc[2].v)
    /\ pc' = "cfs_begin"
    /\ UNCHANGED <<exc, caller, argv, exit_code, console, stats, dirs, files, attempted,
                   written, reported, report, run, first_names, gen>>

\* stats = create_structured_files(root_dir, N, M, K, file_type)
Main_RunStructured ==
    /\ pc = "main"
    /\ ~usage_error(argv)
    /\ ~is_simple_mode(argv)
    /\ frame' = structured_frame(argv.n.v, argv.m.v, argv.k.v, file_type_of(argv),
                                 DefaultMinSize)
    /\ pc' = "csf_begin"
    /\ UNCHANGED <<exc, caller, argv, exit_code, console, stats, dirs, files, attempted,
                   written, reported, report, run, first_names, gen>>

\* the generator returned: "Finished successfully", then the statistics if
\* --stat was given; an exception of the printer is caught like any other
Main_Finished ==
    /\ pc = "returned"
    /\ caller = "main"
    /\ LET r == IF ~argv.stat THEN NoReport
                ELSE IF frame.fn = "create_files_simple"
                     THEN print_simple_statistics(stats)
                     ELSE print_structured_statistics(stats)
       IN /\ report' = r
          /\ console' = console \cup {"finished"} \cup
                 IF r.kind = "ZeroDivisionError" THEN {"error_occurred"} ELSE {}
    /\ exit_code' = 0
    /\ pc' = "exited"
    /\ UNCHANGED <<exc, caller, argv, frame, stats, dirs, files, attempted, written,
                   reported, run, first_names, gen>>

\* except Exception as e: the run is abandoned and main returns
Main_Except ==
    /\ pc = "raised"
    /\ caller = "main"
    /\ console' = console \cup {"error_occurred"}
    /\ exit_code' = 0
    /\ pc' = "exited"
    /\ UNCHANGED <<exc, caller, argv, frame, stats, dirs, files, attempted, written,
                   reported, report, run, first_names, gen>>

(***************************************************************************)
(* Direct calls of the two generators on an empty file system.             *)
(***************************************************************************)
\* the direct calls of create_files_simple: for one file of every size, for
\* up to MaxTotal empty files, and for two files of 1 KB.  A file of n bytes
\* can be left in n + 3 ways, so a run of k files of 1 KB ends in more than
\* 1000^k states: runs of several files are run with empty files, and one run
\* of two full files
SimpleCalls ==
    {simple_frame(1, size_kb) : size_kb \in 0..MaxSizeKB}
    \cup {simple_frame(num_files, 0) : num_files \in 1..MaxTotal}
    \cup {simple_frame(2, 1)}

FileTypes == {"bin", "txt", "mix"}

MinSizes(K) == {DefaultMinSize, K * KB, LargeMin}

\* the direct calls of create_structured_files: for one file of every K, for
\* up to MaxTotal empty files (K = 0), and for two subdirectories of one binary
\* file of 1 KB each
StructuredCalls ==
    {structured_frame(1, 1, K, ft, ms) :
        K \in 0..MaxK, ft \in FileTypes, ms \in {DefaultMinSize, LargeMin}}
    \cup {structured_frame(1, 1, K, ft, K * KB) : K \in 0..MaxK, ft \in FileTypes}
    \cup UNION {{structured_frame(c[1], c[2], 0, ft, ms) :
                    ft \in FileTypes, ms \in MinSizes(0)} :
                c \in {d \in (1..MaxTotal) \X (1..MaxTotal) :
                          d[1] * d[2] <= MaxTotal}}
    \cup {structured_frame(2, 1, 1, "bin", LargeMin)}

Init ==
    /\ Fresh
    /\ caller = "direct"
    /\ argv = NoArgv
    /\ gen = NoGen
    /\ \/ /\ pc = "cfs_begin"
          /\ frame \in SimpleCalls
       \/ /\ pc = "csf_begin"
          /\ frame \in StructuredCalls

Next ==
    \/ CFS_Begin
    \/ CFS_File
    \/ CFS_Return
    \/ CSF_Begin
    \/ CSF_Subdir
    \/ CSF_File
    \/ CSF_Return

Spec == Init /\ [][Next]_vars

(***************************************************************************)
(* The flat generator called again with the same arguments on the root the *)
(* first call left.                                                        *)
(***************************************************************************)
\* number of consecutive flat runs against one root
MaxRuns == 2

Rerun ==
    /\ pc = "returned"
    /\ caller = "direct"
    /\ frame.fn = "create_files_simple"
    /\ run < MaxRuns
    /\ run' = run + 1
    /\ frame' = simple_frame(frame.num_files, frame.size_kb)
    /\ attempted' = {}
    /\ written' = {}
    /\ reported' = {}
    /\ pc' = "cfs_begin"
    /\ UNCHANGED <<exc, caller, argv, exit_code, console, stats, dirs, files, report,
                   first_names, gen>>

\* the calls that are repeated: for one file of 1 KB and for up to MaxTotal
\* empty files
RerunCalls ==
    {simple_frame(1, 1)}
    \cup {simple_frame(num_files, 0) : num_files \in 1..MaxTotal}

\* names the root can hold before the first run, left by an earlier call for
\* one more file: the first name this call writes and the name after its last,
\* which this call never writes
OldNames(num_files) == {simple_path(1), simple_path(num_files + 1)}

\* what the root holds before the first call: no root directory, or a root
\* with any of the old names, each a file of 1 KB
OldRoots(num_files) ==
    {[dirs |-> {}, files |-> NoFiles]}
    \cup {[dirs |-> {<<"root">>}, files |-> [p \in names |-> KB]] :
             names \in SUBSET OldNames(num_files)}

InitRerun ==
    /\ Idle
    /\ caller = "direct"
    /\ argv = NoArgv
    /\ gen = NoGen
    /\ pc = "cfs_begin"
    /\ frame \in RerunCalls
    /\ \E old \in OldRoots(frame.num_files) :
          dirs = old.dirs /\ files = old.files

NextRerun ==
    \/ CFS_Begin
    \/ CFS_File
    \/ CFS_Return
    \/ Rerun

SpecRerun == InitRerun /\ [][NextRerun]_vars

(***************************************************************************)
(* The program started from the command line.                              *)
(***************************************************************************)
\* what can stand for a size on the command line (-k, the size of -fc), and
\* for a count (-n, -m, the count of -fc): a run started by main has files of
\* at least 100 bytes, so the command lines ask for no more than one file
SizeArgs == {Text} \cup {Num(n) : n \in -1..MaxArg}
CountArgs == {Text, Num(-1), Num(0), Num(1)}

FileTypeFlags == {"none", "bin", "txt", "mix"}

CommandLines ==
    [d : BOOLEAN,
     fc : {<<>>} \cup (CountArgs \X SizeArgs),
     n : {Absent} \cup CountArgs,
     m : {Absent} \cup CountArgs,
     k : {Absent} \cup SizeArgs,
     file_type : FileTypeFlags,
     stat : BOOLEAN]

InitMain ==
    /\ Fresh
    /\ caller = "main"
    /\ argv \in CommandLines
    /\ gen = NoGen
    /\ frame = NoFrame
    /\ pc = "main"

NextMain ==
    \/ Main_UsageError
    \/ Main_RunSimple
    \/ Main_RunStructured
    \/ CFS_Begin
    \/ CFS_File
    \/ CFS_Return
    \/ CSF_Begin
    \/ CSF_Subdir
    \/ CSF_File
    \/ CSF_Return
    \/ Main_Finished
    \/ Main_Except

SpecMain == InitMain /\ [][NextMain]_vars

(***************************************************************************)
(* generate_random_data called on its own.                                 *)
(***************************************************************************)
\* the values of one byte of os.urandom
urandom_bytes == 0..255

\* the random draws of one call: a byte per index for os.urandom, an index
\* into characters per random.choice
draws(size_bytes, is_binary) ==
    [1..size_bytes -> IF is_binary THEN urandom_bytes
                      ELSE 0..(Len(characters) - 1)]

Generate ==
    /\ pc = "generate"
    /\ LET r == generate_random_data(gen.size_bytes, gen.is_binary, gen.rnd)
       IN IF r.raises = "none"
          THEN /\ gen' = [gen EXCEPT !.data = r.data, !.called = TRUE]
               /\ pc' = "generated"
               /\ UNCHANGED exc
          ELSE /\ gen' = [gen EXCEPT !.called = TRUE]
               /\ pc' = "raised"
               /\ exc' = r.raises
    /\ UNCHANGED <<caller, argv, exit_code, console, frame, stats, dirs, files,
                   attempted, written, reported, report, run, first_names>>

InitGen ==
    /\ Fresh
    /\ caller = "direct"
    /\ argv = NoArgv
    /\ frame = NoFrame
    /\ \E b \in BOOLEAN :
       \E n \in -1..(IF b THEN MaxBinLen ELSE MaxLen) :
         \E r \in draws(n, b) :
           gen = [size_bytes |-> n, is_binary |-> b, rnd |-> r, data |-> <<>>,
                  called |-> FALSE]
    /\ pc = "generate"

NextGen == Generate

SpecGen == InitGen /\ [][NextGen]_vars

(***************************************************************************)
(* The claims.                                                             *)
(***************************************************************************)
Structured == frame.fn = "create_structured_files"
Simple == frame.fn = "create_files_simple"
StructuredStatsLive == Structured /\ "binary_files" \in DOMAIN stats
WrittenIdx == {w.idx : w \in written}
NoFilesOnDisk == dirs = {} /\ DOMAIN files = {}

\* C1: in a structured run total_files = binary_files + text_files and
\* total_size_bytes = binary_size_bytes + text_size_bytes in every state,
\* whichever writes fail, and a successful write adds 1 to total_files and
\* to exactly one of binary_files and text_files.
C1_Sums ==
    StructuredStatsLive =>
        /\ stats.total_files = stats.binary_files + stats.text_files
        /\ stats.total_size_bytes = stats.binary_size_bytes + stats.text_size_bytes
C1_Step ==
    (Structured /\ written' # written) =>
        /\ stats'.total_files = stats.total_files + 1
        /\ \/ /\ stats'.binary_files = stats.binary_files + 1
              /\ stats'.text_files = stats.text_files
           \/ /\ stats'.binary_files = stats.binary_files
              /\ stats'.text_files = stats.text_files + 1
C1_Accumulator == [](C1_Sums) /\ [][C1_Step]_vars
C1_Witness ==
    /\ pc = "returned"
    /\ StructuredStatsLive
    /\ stats.binary_files > 0
    /\ stats.text_files > 0
    /\ reported # {}

\* C2: in both modes a failed write is reported, leaves the statistics as
\* they were and moves the loop to the next index without leaving the
\* generator; when the generator returns every file of every subdirectory
\* was attempted, and no write ever makes it raise.
C2_FailStep ==
    reported' # reported =>
        /\ stats' = stats
        /\ "error_writing" \in console'
        /\ exc' = "none"
        /\ IF Simple
           THEN pc' = "cfs_loop" /\ frame'.i = frame.i + 1
           ELSE /\ frame'.j = frame.j + 1
                /\ IF frame.j < frame.num_files
                   THEN pc' = "csf_file" /\ frame'.i = frame.i
                   ELSE pc' = "csf_subdir" /\ frame'.i = frame.i + 1
C2_AllAttempted ==
    pc = "returned" =>
        /\ WrittenIdx \cup reported = attempted
        /\ WrittenIdx \cap reported = {}
        /\ IF Simple
           THEN attempted = {<<i>> : i \in 1..frame.num_files}
           ELSE \E count \in [1..frame.N -> 1..frame.M] :
                  attempted = {idx \in (1..frame.N) \X (1..frame.M) :
                                  idx[2] <= count[idx[1]]}
C2_NoAbort == pc = "raised" => exc = "makedirs"
C2_FailureNonFatal == [](C2_AllAttempted /\ C2_NoAbort) /\ [][C2_FailStep]_vars
C2_Witness ==
    /\ pc = "returned"
    /\ Structured
    /\ frame.N = 2
    /\ <<1, 1>> \in reported
    /\ <<2, 1>> \in WrittenIdx
    /\ \E p \in DOMAIN files :
          p[1] = subdir_path(1) /\ files[p] > 0 /\ files[p] < KB

\* C3 (as stated): whenever any supplied count or size is not a strictly
\* positive integer, or flat mode is not selected and one of -n, -m, -k is
\* missing, main ends in a usage error with a non-zero exit and nothing on disk.
NotPositiveInt(x) == x.k = "text" \/ (x.k = "int" /\ x.v <= 0)
MissingStructured(a) ==
    a.fc = <<>> /\ (a.n = Absent \/ a.m = Absent \/ a.k = Absent)
UsageOutcome ==
    /\ pc = "exited"
    /\ exit_code # 0
    /\ "usage_error" \in console
    /\ NoFilesOnDisk
C3_AsStated ==
    (/\ pc # "main"
     /\ \/ \E x \in DOMAIN argv.fc : NotPositiveInt(argv.fc[x])
        \/ NotPositiveInt(argv.n)
        \/ NotPositiveInt(argv.m)
        \/ NotPositiveInt(argv.k)
        \/ MissingStructured(argv))
    => UsageOutcome

\* C3 (amended): whenever a supplied count or size is not an integer, or a
\* count or size of the selected mode (N, M of -fc when -fc is given, else
\* -n, -m, -k) is not strictly positive, or flat mode is not selected and one
\* of -n, -m, -k is missing, main ends in a usage error with a non-zero exit
\* and nothing on disk.
NotInt(x) == x.k = "text"
C3_SelectedMode ==
    (/\ pc # "main"
     /\ \/ \E x \in DOMAIN argv.fc : NotInt(argv.fc[x])
        \/ NotInt(argv.n) \/ NotInt(argv.m) \/ NotInt(argv.k)
        \/ \E x \in DOMAIN argv.fc : NotPositiveInt(argv.fc[x])
        \/ /\ argv.fc = <<>>
           /\ \/ NotPositiveInt(argv.n)
              \/ NotPositiveInt(argv.m)
              \/ NotPositiveInt(argv.k)
        \/ MissingStructured(argv))
    => UsageOutcome
C3_Witness ==
    /\ UsageOutcome
    /\ exit_code = UsageExit
    /\ argv.d
    /\ argv.fc = <<>>
    /\ argv.n = Num(0)
    /\ argv.m = Num(1)
    /\ argv.k = Num(1)

\* the subdirectories on disk, the files of subdirectory i, and the range
\* [min(min_size_bytes, K * 1024), K * 1024] of the call's arguments
Subdirs == dirs \ {<<"root">>}
FilesIn(i) == {p \in DOMAIN files : p[1] = subdir_path(i)}
AttemptedIn(i) == {idx \in attempted : idx[1] = i}
ArgSizeRange ==
    (IF frame.min_size_arg < frame.K * KB THEN frame.min_size_arg
     ELSE frame.K * KB) .. (frame.K * KB)

\* C4 (as stated): after a completed structured run on an empty root there
\* are exactly N subdirectories, each holds between 1 and M files, and every
\* file's size is in [min(min_size_bytes, K*1024), K*1024].
C4_AsStated ==
    (pc = "returned" /\ Structured) =>
        /\ Subdirs = {subdir_path(i) : i \in 1..frame.N}
        /\ Cardinality(Subdirs) = frame.N
        /\ \A i \in 1..frame.N : Cardinality(FilesIn(i)) \in 1..frame.M
        /\ \A p \in DOMAIN files : files[p] \in ArgSizeRange

\* C4 (amended): after a completed structured run on an empty root there are
\* exactly N subdirectories; in each between 1 and M writes were attempted and
\* it holds at most one file per attempt, exactly one per attempt (so between
\* 1 and M files) when none of its writes failed; and every file whose write
\* succeeded has its size in [min(min_size_bytes, K*1024), K*1024]. While a
\* subdirectory is being filled the file count drawn for it is between 1 and M.
C4_Completed ==
    /\ (pc = "csf_file" /\ Structured) => frame.num_files \in 1..frame.M
    /\ (pc = "returned" /\ Structured) =>
        /\ Subdirs = {subdir_path(i) : i \in 1..frame.N}
        /\ Cardinality(Subdirs) = frame.N
        /\ \A i \in 1..frame.N :
             /\ Cardinality(AttemptedIn(i)) \in 1..frame.M
             /\ Cardinality(FilesIn(i)) <= Cardinality(AttemptedIn(i))
             /\ AttemptedIn(i) \cap reported = {} =>
                    Cardinality(FilesIn(i)) = Cardinality(AttemptedIn(i))
        /\ \A w \in written : files[w.path] \in ArgSizeRange
C4_Witness ==
    /\ pc = "returned"
    /\ Structured
    /\ frame.N >= 2
    /\ FilesIn(1) = {}
    /\ Cardinality(FilesIn(2)) = 1
    /\ AttemptedIn(2) \cap reported = {}

\* C5: a structured call with min_size_bytes > K * 1024 does not fail: the
\* minimum is clamped to K * 1024 with a warning, every size drawn and every
\* file written has exactly K * 1024 bytes.
C5_Clamped ==
    (Structured /\ frame.min_size_arg > frame.K * KB) =>
        /\ pc = "raised" => exc = "makedirs"
        /\ pc \notin {"csf_begin", "raised"} =>
              /\ "warning_min_size" \in console
              /\ frame.min_size_bytes = frame.K * KB
              /\ randint(frame.min_size_bytes, frame.max_size_bytes)
                     = {frame.K * KB}
        /\ \A w \in written : files[w.path] = frame.K * KB
        /\ StructuredStatsLive =>
              stats.total_size_bytes = stats.total_files * frame.K * KB
C5_Witness ==
    /\ pc = "returned"
    /\ Structured
    /\ frame.min_size_arg > frame.K * KB
    /\ frame.K = 1
    /\ Cardinality(written) = 2

\* C6: in a flat run total_files is the number of files written so far and
\* total_size_bytes = total_files * size_kb * 1024 in every state; when no
\* write fails the stats returned are num_files and num_files * size_kb * 1024.
C6_FlatStats ==
    (Simple /\ caller = "direct") =>
        /\ stats.total_files = Cardinality(written)
        /\ stats.total_size_bytes = stats.total_files * frame.size_kb * KB
        /\ (pc = "returned" /\ reported = {}) =>
              /\ stats.total_files = frame.num_files
              /\ stats.total_size_bytes = frame.num_files * frame.size_kb * KB
C6_Witness ==
    /\ pc = "returned"
    /\ Simple
    /\ frame.num_files = 2
    /\ frame.size_kb = 1
    /\ <<1>> \in reported
    /\ <<2>> \in WrittenIdx
    /\ stats.total_size_bytes = KB

\* the names a flat run with the frame's num_files can write
FlatNames == {simple_path(i) : i \in 1..frame.num_files}

\* C7 (as stated): after the second of two flat runs with the same arguments
\* the root holds exactly the file names, and as many files, as after the first.
C7_AsStated ==
    (run = 2 /\ pc = "returned") =>
        /\ DOMAIN files = first_names
        /\ Cardinality(DOMAIN files) = Cardinality(first_names)

\* C7 (amended): after a later flat run with the same arguments the root holds
\* every file name it held after the first run, and no other name but
\* fixed_file_001 .. fixed_file_<num_files>; when after the first run the root
\* held all of fixed_file_001 .. fixed_file_<num_files>, the names and the
\* count are exactly those after the first run.
C7_Overwrites ==
    (run >= 2 /\ pc = "returned") =>
        /\ first_names \subseteq DOMAIN files
        /\ DOMAIN files \subseteq first_names \cup FlatNames
        /\ FlatNames \subseteq first_names =>
              /\ DOMAIN files = first_names
              /\ Cardinality(DOMAIN files) = Cardinality(first_names)
C7_Witness ==
    /\ run = 2
    /\ pc = "returned"
    /\ frame.size_kb = 1
    /\ FlatNames \subseteq first_names
    /\ first_names # FlatNames
    /\ Cardinality(written) = frame.num_files
    /\ files[simple_path(1)] = KB

\* a report was printed: main ran the statistics printer
Printed == pc = "exited" /\ report # NoReport
NoZeroDivisor == \A x \in DOMAIN report.divisors : report.divisors[x] # 0
Averages == DOMAIN report \cap {"avg_total", "avg_binary", "avg_text"}
ZeroCategories ==
    /\ ("avg_total" \in Averages /\ stats.total_files = 0) =>
            report.avg_total = Zero
    /\ ("avg_binary" \in Averages /\ stats.binary_files = 0) =>
            report.avg_binary = Zero
    /\ ("avg_text" \in Averages /\ stats.text_files = 0) =>
            report.avg_text = Zero

\* C8 (as stated): in both modes the printer given total_files = 0 prints a
\* "no files" report and divides nothing, and a category with no files has
\* its average, where the report gives one, reported as 0 without a division
\* by zero.
C8_AsStated ==
    Printed =>
        /\ stats.total_files = 0 =>
              report.kind = "no_files" /\ report.divisors = <<>>
        /\ report.kind # "ZeroDivisionError"
        /\ NoZeroDivisor
        /\ ZeroCategories

\* C8 (amended): the structured printer given total_files = 0 prints a "no
\* files" report and divides nothing; the flat printer given total_files = 0
\* prints its usual report with an average of 0, dividing only by the
\* constant 1024 * 1024; in both modes no division by zero happens, the
\* structured "no files" report gives no average, and every average a report
\* does give is 0 for a category with no files.
C8_Printers ==
    Printed =>
        /\ (Structured /\ stats.total_files = 0) =>
              /\ report.kind = "no_files"
              /\ report.divisors = <<>>
              /\ Averages = {}
        /\ (Simple /\ stats.total_files = 0) =>
              /\ report.kind = "simple"
              /\ report.divisors = <<KB * KB>>
              /\ report.avg_total = Zero
        /\ report.kind # "ZeroDivisionError"
        /\ NoZeroDivisor
        /\ ZeroCategories
C8_Witness ==
    /\ Printed
    /\ Simple
    /\ stats.total_files = 0
    /\ report.kind = "simple"

\* the alphabet {A-Z, a-z, 0-9, space, newline, tab}
Alphabet == (65..90) \cup (97..122) \cup (48..57) \cup {32, 10, 9}
Bytes(data) == {data[x] : x \in DOMAIN data}
TextCall == pc = "generated" /\ ~gen.is_binary /\ gen.size_bytes >= 0

\* C9 (as stated): for size_bytes >= 0 the text branch returns exactly
\* size_bytes bytes, each in
\* the alphabet {A-Z, a-z, 0-9, space, newline, tab}, which has 64 symbols.
C9_AsStated ==
    TextCall =>
        /\ Len(gen.data) = gen.size_bytes
        /\ Bytes(gen.data) \subseteq Alphabet
        /\ Bytes(characters) = Alphabet
        /\ Cardinality(Bytes(characters)) = 64

\* C9 (amended): for size_bytes >= 0 the text branch returns exactly
\* size_bytes bytes, each in
\* the alphabet {A-Z, a-z, 0-9, space, newline, tab}, which has 65 symbols.
C9_Text ==
    TextCall =>
        /\ Len(gen.data) = gen.size_bytes
        /\ Bytes(gen.data) \subseteq Alphabet
        /\ Bytes(characters) = Alphabet
        /\ Cardinality(Bytes(characters)) = 65
C9_Witness ==
    /\ TextCall
    /\ gen.size_bytes = 2
    /\ gen.data = <<9, 90>>

\* C10: a structured run started by main has min_size_bytes = 100 and K >= 1,
\* so max_size_bytes >= 1024 > 100: the clamp and its warning are never
\* reached, and every file it writes has its size in [100, K * 1024].
C10_CliNeverClamps ==
    (caller = "main" /\ Structured) =>
        /\ frame.min_size_arg = DefaultMinSize
        /\ frame.K >= 1
        /\ "warning_min_size" \notin console
        /\ pc # "csf_begin" =>
              /\ frame.max_size_bytes >= KB
              /\ frame.max_size_bytes > frame.min_size_bytes
              /\ frame.min_size_bytes = DefaultMinSize
        /\ \A w \in written : files[w.path] \in DefaultMinSize..(frame.K * KB)
C10_Witness ==
    /\ caller = "main"
    /\ Structured
    /\ pc = "exited"
    /\ exit_code = 0
    /\ written # {}

====
